---- MODULE Spec2Model ----
(***************************************************************************)
(* Model of the Robot Framework MCP server: the suite-name validator of    *)
(* mcp_server/server.py, the four tools of mcp_server/tools.py and the     *)
(* two ways they are reached (the FastAPI facade, and the MCP tool         *)
(* registry that mcp.run() serves).                                        *)
(*                                                                         *)
(* Strings that the code inspects character by character (suite names,    *)
(* keywords, message texts) are sequences of one-character strings; the    *)
(* characters NUL, backtick and apostrophe are written "NUL", "BACKTICK"   *)
(* and "APOSTROPHE".                                                       *)
(***************************************************************************)
EXTENDS Integers, Sequences, FiniteSets, TLC

VARIABLES
    vIn,        \* the value handed to _validate_suite_name
    vAllow,     \* its allow_empty argument
    vOut,       \* what the call did: pending, returned a value, or raised
    docIn,      \* the lines of the file handed to _extract_suite_doc
    docOut,     \* what that call returned, or that it is pending
    walkIn,     \* the ancestors of the message handed to _find_ancestor_test_name
    walkOut,    \* the entry made for that message, or that it is pending
    inflight,   \* per server process: the tool call it is in the middle of
    testsDir,   \* whether the directory TESTS_DIR exists
    tests,      \* TESTS_DIR: suite name -> the file <name>.robot
    resultDirs, \* the directories RESULTS_DIR/<name> that exist
    results,    \* RESULTS_DIR: suite name -> the file <name>/output.xml
    scanOrder,  \* the order in which the filesystem lists directory entries
    clock,      \* the filesystem's timestamp clock
    lastExec,   \* the suite whose execution returned a report just before
    res         \* the outcome of the last operation

vars == <<vIn, vAllow, vOut, docIn, docOut, walkIn, walkOut, inflight, testsDir, tests, resultDirs, results, scanOrder, clock, lastExec, res>>

fsVars == <<testsDir, tests, resultDirs, results, scanOrder, clock, lastExec, res>>

valVars == <<vIn, vAllow, vOut>>

docVars == <<docIn, docOut>>

walkVars == <<walkIn, walkOut>>

\* The variables of the calls that are checked on their own.
soloVars == <<vIn, vAllow, vOut, docIn, docOut, walkIn, walkOut>>

\* The variables that a tool call running from start to end leaves alone:
\* those of the calls that are checked on their own, and the calls of the
\* server processes that are under way.
callVars == <<soloVars, inflight>>

-----------------------------------------------------------------------------
(* Bounds of the model *)

\* Every string of at most this many characters is a validator input.
MaxShortLen == 3

\* Long validator inputs have MaxNameLen - LongSlack .. MaxNameLen + LongSlack
\* leading letters.
LongSlack == 1

\* The timestamp clock takes the values 0 .. MaxClock.
MaxClock == 1

\* Every file of at most this many lines is an input of _extract_suite_doc.
MaxDocLines == 3

\* A message handed to _find_ancestor_test_name has at most this many
\* elements above it.
MaxDepth == 3

\* The engine runs the two processes start between them when they run side
\* by side; the clock counts them.
MaxRuns == 3

-----------------------------------------------------------------------------
(* Characters *)

LowerLetters ==
    {"a", "b", "c", "d", "e", "f", "g", "h", "i", "j", "k", "l", "m",
     "n", "o", "p", "q", "r", "s", "t", "u", "v", "w", "x", "y", "z"}

UpperLetters ==
    {"A", "B", "C", "D", "E", "F", "G", "H", "I", "J", "K", "L", "M",
     "N", "O", "P", "Q", "R", "S", "T", "U", "V", "W", "X", "Y", "Z"}

Digits == {"0", "1", "2", "3", "4", "5", "6", "7", "8", "9"}

\* [a-zA-Z]
IsLetter(c) == c \in LowerLetters \cup UpperLetters

\* [a-zA-Z0-9_]
IsWordChar(c) == IsLetter(c) \/ c \in Digits \/ c = "_"

\* The single characters of the class of DANGEROUS_PATTERNS (slash, backslash,
\* semicolon, bar, ampersand, dollar, backtick, angle brackets, both quotes)
\* and \x00.
DangerousChars ==
    {"/", "\\", ";", "|", "&", "$", "BACKTICK", "<", ">", "\"", "APOSTROPHE", "NUL"}

-----------------------------------------------------------------------------
(* The validator, server.py *)

\* The {0,63} of SAFE_SUITE_NAME_PATTERN allows 1 + 63 characters.
MaxNameLen == 64

\* DANGEROUS_PATTERNS.search(value): some position holds a character of the
\* class or a NUL, or starts the two-character sequence "..".
DANGEROUS_PATTERNS_search(value) ==
    \E i \in 1..Len(value) :
        \/ value[i] \in DangerousChars
        \/ value[i] = "." /\ i < Len(value) /\ value[i + 1] = "."

\* The pattern with one repetition too few: {0,62}.
SafePatternShort(value) ==
    \E n \in 1..(MaxNameLen - 1) :
        /\ n <= Len(value)
        /\ IsLetter(value[1])
        /\ \A i \in 2..n : IsWordChar(value[i])
        /\ \/ n = Len(value)
           \/ n + 1 = Len(value) /\ value[n + 1] = "\n"

\* SAFE_SUITE_NAME_PATTERN.match(value): ^[a-zA-Z][a-zA-Z0-9_]{0,63}$ with
\* Python's "$", which matches at the end of the string and also just before
\* a line break that ends the string.
SAFE_SUITE_NAME_PATTERN_match(value) ==
    \E n \in 1..MaxNameLen :
        /\ n <= Len(value)
        /\ IsLetter(value[1])
        /\ \A i \in 2..n : IsWordChar(value[i])
        /\ \/ n = Len(value)
           \/ n + 1 = Len(value) /\ value[n + 1] = "\n"

Returned(value) == [raised |-> FALSE, value |-> value]

Raised(why) == [raised |-> TRUE, error |-> why]

\* _validate_suite_name with allow_empty returning before the checks.
ValidateAllowFirst(value, allow_empty) ==
    IF allow_empty
    THEN Returned(value)
    ELSE IF value = <<>>
         THEN Raised("cannot be empty")
         ELSE IF DANGEROUS_PATTERNS_search(value)
              THEN Raised("contains forbidden characters")
              ELSE IF ~SAFE_SUITE_NAME_PATTERN_match(value)
                   THEN Raised("must start with a letter")
                   ELSE Returned(value)

_validate_suite_name(value, allow_empty) ==
    IF value = <<>>
    THEN IF allow_empty THEN Returned(value) ELSE Raised("cannot be empty")
    ELSE IF DANGEROUS_PATTERNS_search(value)
         THEN Raised("contains forbidden characters")
         ELSE IF ~SAFE_SUITE_NAME_PATTERN_match(value)
              THEN Raised("must start with a letter")
              ELSE Returned(value)

-----------------------------------------------------------------------------
(* The validator called on its own *)

\* The characters validator inputs are built from: letters of both cases, a
\* digit, the underscore, every forbidden character, the dot, a line break,
\* and two characters outside every class.
InputChars ==
    {"a", "Z", "7", "_", ".", "\n", "-", "é"} \cup DangerousChars

ShortInputs == UNION {[1..n -> InputChars] : n \in 0..MaxShortLen}

Repeat(c, n) == [i \in 1..n |-> c]

\* Inputs around the length limit: a run of letters, then at most one more
\* character.
LongInputs ==
    {Repeat("a", n) \o tail :
        n \in (MaxNameLen - LongSlack)..(MaxNameLen + LongSlack),
        tail \in UNION {[1..k -> InputChars] : k \in 0..1}}

ValidatorInputs == ShortInputs \cup LongInputs

Pending == [pending |-> TRUE]

\* One call of _validate_suite_name(vIn, allow_empty = vAllow).
ValidateCall ==
    /\ vOut = Pending
    /\ vOut' = [pending |-> FALSE, out |-> _validate_suite_name(vIn, vAllow)]
    /\ UNCHANGED <<vIn, vAllow>>
    /\ UNCHANGED docVars
    /\ UNCHANGED walkVars
    /\ UNCHANGED inflight
    /\ UNCHANGED fsVars

-----------------------------------------------------------------------------
(* Text helpers *)

UpperSeq ==
    <<"A", "B", "C", "D", "E", "F", "G", "H", "I", "J", "K", "L", "M",
      "N", "O", "P", "Q", "R", "S", "T", "U", "V", "W", "X", "Y", "Z">>

LowerSeq ==
    <<"a", "b", "c", "d", "e", "f", "g", "h", "i", "j", "k", "l", "m",
      "n", "o", "p", "q", "r", "s", "t", "u", "v", "w", "x", "y", "z">>

LowerChar(c) ==
    IF c \in UpperLetters
    THEN LowerSeq[CHOOSE i \in 1..Len(UpperSeq) : UpperSeq[i] = c]
    ELSE c

UpperChar(c) ==
    IF c \in LowerLetters
    THEN UpperSeq[CHOOSE i \in 1..Len(LowerSeq) : LowerSeq[i] = c]
    ELSE c

\* The string as it is, letter case kept.
LowerKept(s) == s

\* str.lower()
Lower(s) == [i \in 1..Len(s) |-> LowerChar(s[i])]

\* str.upper()
Upper(s) == [i \in 1..Len(s) |-> UpperChar(s[i])]

\* needle in hay
Contains(needle, hay) ==
    \E i \in 0..(Len(hay) - Len(needle)) :
        SubSeq(hay, i + 1, i + Len(needle)) = needle

Whitespace == {" ", "\n", "\t", "\r"}

\* str.strip()
Strip(s) ==
    LET keep == {i \in 1..Len(s) : s[i] \notin Whitespace}
    IN  IF keep = {}
        THEN <<>>
        ELSE SubSeq(s, CHOOSE i \in keep : \A j \in keep : i <= j,
                       CHOOSE i \in keep : \A j \in keep : j <= i)

\* The characters in code-point order, as far as names use them.
CharOrder ==
    <<".", "/">> \o <<"0", "1", "2", "3", "4", "5", "6", "7", "8", "9">>
    \o UpperSeq \o <<"_">> \o LowerSeq

CharCode(c) == CHOOSE i \in 1..Len(CharOrder) : CharOrder[i] = c

\* s < t for strings: the first differing character decides, a proper prefix
\* comes first.
StrLess(s, t) ==
    \E k \in 1..(Len(t)) :
        /\ \A i \in 1..(k - 1) : i <= Len(s) /\ s[i] = t[i]
        /\ \/ k = Len(s) + 1
           \/ k <= Len(s) /\ CharCode(s[k]) < CharCode(t[k])

Range(seq) == {seq[i] : i \in 1..Len(seq)}

-----------------------------------------------------------------------------
(* The filesystem: TESTS_DIR and RESULTS_DIR, tools.py *)

\* Two suite names that are plain identifiers, and one that walks out of the
\* directory it is joined to.
NameA == <<"a">>

NameB == <<"B">>

NameUp == <<".", ".", "/", "a">>

SuiteNames == {NameA, NameB, NameUp}

\* Path / name stays directly inside Path when name has no separator.
IsDirectChild(name) == \A i \in 1..Len(name) : name[i] # "/"

DirectNames == {n \in SuiteNames : IsDirectChild(n)}

Absent == [kind |-> "absent"]

SettingsHeader ==
    <<"*", "*", "*", " ", "S", "e", "t", "t", "i", "n", "g", "s", " ", "*",
      "*", "*">>

StarsPrefix == <<"*", "*", "*", " ">>

DotsPrefix == <<".", ".", ".">>

DocKeyword ==
    <<"d", "o", "c", "u", "m", "e", "n", "t", "a", "t", "i", "o", "n">>

\* The lines of a suite file with a documentation setting that continues
\* over a second line, and a later table.
DocumentedLines ==
    <<SettingsHeader,
      <<"D", "o", "c", "u", "m", "e", "n", "t", "a", "t", "i", "o", "n", " ",
        " ", "C", "h", "e", "c", "k", "s", " ", "a">>,
      <<".", ".", ".", " ", " ", "a", "n", "d", " ", "b", " ">>,
      <<"L", "i", "b", "r", "a", "r", "y", " ", " ", "X">>,
      <<"*", "*", "*", " ", "T", "e", "s", "t", " ", "C", "a", "s", "e", "s",
        " ", "*", "*", "*">>,
      <<"D", "o", "c", "u", "m", "e", "n", "t", "a", "t", "i", "o", "n", " ",
        " ", "n", "o">>>>

\* The lines of a suite file without a settings table.
PlainLines ==
    <<<<"*", "*", "*", " ", "K", "e", "y", "w", "o", "r", "d", "s", " ", "*",
        "*", "*">>,
      <<"D", "o", "c", "u", "m", "e", "n", "t", "a", "t", "i", "o", "n", " ",
        " ", "n", "o">>>>

\* <name>.robot: absent, a readable suite file, or a file whose bytes are not
\* UTF-8 text.
SuiteFiles ==
    {Absent, [kind |-> "binary"]}
    \cup {[kind |-> "file", lines |-> l] : l \in {DocumentedLines, PlainLines}}

\* Path.is_file()
IsFile(f) == f.kind # "absent"

RobotFilePresent(n) == testsDir /\ IsDirectChild(n) /\ IsFile(tests[n])

\* TESTS_DIR.glob("*.robot"): the suite files in the order the filesystem
\* lists them.
GlobRobot == SelectSeq(scanOrder, RobotFilePresent)

OutputPresent(n) == IsDirectChild(n) /\ IsFile(results[n])

\* RESULTS_DIR.glob("*/output.xml"), in the order the filesystem lists them.
GlobOutput == SelectSeq(scanOrder, OutputPresent)

RECURSIVE InsertNewer(_, _)
\* Insert x into a sequence sorted newest first, behind every entry that is
\* not older than it.
InsertNewer(x, seq) ==
    IF seq = <<>>
    THEN <<x>>
    ELSE IF results[x].mtime > results[Head(seq)].mtime
         THEN <<x>> \o seq
         ELSE <<Head(seq)>> \o InsertNewer(x, Tail(seq))

\* The files left in the order the filesystem lists them.
SortKeptAsListed(seq) == seq

RECURSIVE SortNewestFirst(_)
\* sorted(seq, key=st_mtime, reverse=True): a stable sort, entries of equal
\* modification time keep their order.
SortNewestFirst(seq) ==
    IF seq = <<>>
    THEN <<>>
    ELSE InsertNewer(seq[Len(seq)], SortNewestFirst(SubSeq(seq, 1, Len(seq) - 1)))

\* sorted(RESULTS_DIR.glob("*/output.xml"), key=st_mtime, reverse=True)
OutputsNewestFirst == SortNewestFirst(GlobOutput)

-----------------------------------------------------------------------------
(* Report artifacts, as the engine writes them *)

TRACE == <<"T", "R", "A", "C", "E">>

DEBUG == <<"D", "E", "B", "U", "G">>

INFO == <<"I", "N", "F", "O">>

WARN == <<"W", "A", "R", "N">>

ERROR == <<"E", "R", "R", "O", "R">>

FAIL == <<"F", "A", "I", "L">>

\* A level of the engine that is none of the six.
SKIP == <<"S", "K", "I", "P">>

TxtTimeoutUp == <<"N", "e", "t", " ", "T", "i", "m", "e", "o", "u", "t">>

TxtTimeoutCfg == <<"t", "i", "m", "e", "o", "u", "t", " ", "s", "e", "t", "\n">>

TxtDisk == <<"d", "i", "s", "k">>

SuiteNode == [tag |-> "suite", name |-> "S"]

TestNode(n) == [tag |-> "test", name |-> n]

KwNode == [tag |-> "kw", name |-> "K"]

\* A <msg> element: its level attribute ("" when it has none), its timestamp
\* attribute, its text, and its ancestors from the root down to its parent.
Msg(level, ts, text, path) == [level |-> level, timestamp |-> ts, text |-> text, path |-> path]

\* A run without a failure: one test passed and one was skipped.
ReportPass ==
    [tests |-> <<[name |-> "T1", status |-> "PASS"], [name |-> "T3", status |-> "SKIP"]>>,
     msgs |-> <<Msg(INFO, "t1", TxtTimeoutCfg, <<SuiteNode, KwNode>>),
                Msg(WARN, "t2", TxtTimeoutUp, <<SuiteNode, TestNode("T1"), KwNode>>),
                Msg(SKIP, "t3", TxtDisk, <<SuiteNode, TestNode("T3"), KwNode>>)>>]

\* A run with a failed test.
ReportFail ==
    [tests |-> <<[name |-> "T1", status |-> "PASS"], [name |-> "T2", status |-> "FAIL"]>>,
     msgs |-> <<Msg(TRACE, "t1", TxtDisk, <<SuiteNode, TestNode("T1"), KwNode>>),
                Msg(FAIL, "t2", TxtTimeoutUp, <<SuiteNode, TestNode("T2"), KwNode, KwNode>>),
                Msg(ERROR, "t3", TxtDisk, <<SuiteNode, TestNode("T2")>>),
                Msg(<<>>, "t4", TxtTimeoutCfg, <<SuiteNode>>)>>]

Reports == {ReportPass, ReportFail}

\* The name the engine records for the suite it ran from <stem>.robot is the
\* engine's display name: underscores become spaces, and a stem without
\* capitals gets its words capitalised.
DisplayName(stem) ==
    LET spaced == [i \in 1..Len(stem) |-> IF stem[i] = "_" THEN " " ELSE stem[i]]
        islower == /\ \E i \in 1..Len(spaced) : spaced[i] \in LowerLetters
                   /\ \A i \in 1..Len(spaced) : spaced[i] \notin UpperLetters
    IN  IF islower
        THEN [i \in 1..Len(spaced) |->
                 IF i = 1 \/ ~IsLetter(spaced[i - 1]) THEN UpperChar(spaced[i]) ELSE spaced[i]]
        ELSE spaced

\* Path.stem of <name>.robot: what follows the last separator.
FileStem(name) ==
    LET seps == {i \in 1..Len(name) : name[i] = "/"}
    IN  IF seps = {}
        THEN name
        ELSE SubSeq(name, 1 + CHOOSE i \in seps : \A j \in seps : j <= i, Len(name))

EngineSuiteName(name) == DisplayName(FileStem(name))

\* output.xml holding a report, and output.xml that is not well-formed XML.
XmlFile(report, name, mtime) ==
    [kind |-> "xml", suite |-> name, mtime |-> mtime, report |-> report]

JunkFile(mtime) == [kind |-> "junk", mtime |-> mtime]

\* output.xml that is well-formed XML in an encoding the parser does not
\* support: ET.parse raises ValueError on it, not ET.ParseError.
ForeignFile(mtime) == [kind |-> "foreign", mtime |-> mtime]

\* ExecutionResult(path) raises on the file.
ExecutionResultFails(file) == file.kind \in {"junk", "foreign"}

-----------------------------------------------------------------------------
(* Helpers of tools.py *)

\* TESTS_DIR / f"{suite_name}.robot"
TestFile(suite_name) ==
    IF testsDir /\ suite_name \in SuiteNames THEN tests[suite_name] ELSE Absent

\* RESULTS_DIR / suite_name / "output.xml"
ResultFile(suite_name) ==
    IF suite_name \in SuiteNames THEN results[suite_name] ELSE Absent

\* str.startswith(prefix)
StartsWith(s, prefix) ==
    Len(prefix) <= Len(s) /\ SubSeq(s, 1, Len(prefix)) = prefix

\* line.split(None, 1) for a line without leading whitespace: the first word,
\* and what follows the whitespace after it if anything does.
SplitOnce(line) ==
    LET gaps == {i \in 1..Len(line) : line[i] \in Whitespace}
    IN  IF gaps = {}
        THEN <<line>>
        ELSE LET first == CHOOSE i \in gaps : \A j \in gaps : i <= j
                 rest == {i \in first..Len(line) : line[i] \notin Whitespace}
             IN  IF rest = {}
                 THEN <<SubSeq(line, 1, first - 1)>>
                 ELSE <<SubSeq(line, 1, first - 1),
                        SubSeq(line, CHOOSE i \in rest : \A j \in rest : i <= j, Len(line))>>

RECURSIVE JoinSpace(_)
\* " ".join(parts)
JoinSpace(parts) ==
    IF parts = <<>>
    THEN <<>>
    ELSE IF Len(parts) = 1
         THEN parts[1]
         ELSE parts[1] \o <<" ">> \o JoinSpace(Tail(parts))

RECURSIVE ScanLinesPastTable(_, _, _, _, _)
\* The loop without its break at the table that follows the settings.
ScanLinesPastTable(lines, i, in_settings, capturing, doc_lines) ==
    IF i > Len(lines)
    THEN doc_lines
    ELSE LET line == Strip(lines[i])
         IN  IF line = SettingsHeader
             THEN ScanLinesPastTable(lines, i + 1, TRUE, capturing, doc_lines)
             ELSE IF ~in_settings
                  THEN ScanLinesPastTable(lines, i + 1, in_settings, capturing, doc_lines)
                  ELSE IF capturing /\ StartsWith(line, DotsPrefix)
                       THEN ScanLinesPastTable(lines, i + 1, in_settings, TRUE,
                                Append(doc_lines, Strip(SubSeq(line, 4, Len(line)))))
                       ELSE IF StartsWith(Lower(line), DocKeyword)
                            THEN ScanLinesPastTable(lines, i + 1, in_settings, TRUE,
                                     IF Len(SplitOnce(line)) > 1
                                     THEN Append(doc_lines, SplitOnce(line)[2])
                                     ELSE doc_lines)
                            ELSE ScanLinesPastTable(lines, i + 1, in_settings, FALSE, doc_lines)

RECURSIVE ScanLines(_, _, _, _, _)
\* The loop of _extract_suite_doc from line i on; its value is doc_lines when
\* the loop ends.
ScanLines(lines, i, in_settings, capturing, doc_lines) ==
    IF i > Len(lines)
    THEN doc_lines
    ELSE LET line == Strip(lines[i])
         IN  IF line = SettingsHeader
             THEN ScanLines(lines, i + 1, TRUE, capturing, doc_lines)
             ELSE IF StartsWith(line, StarsPrefix) /\ in_settings
                  THEN doc_lines
                  ELSE IF ~in_settings
                       THEN ScanLines(lines, i + 1, in_settings, capturing, doc_lines)
                       ELSE IF capturing /\ StartsWith(line, DotsPrefix)
                            THEN ScanLines(lines, i + 1, in_settings, TRUE,
                                           Append(doc_lines, Strip(SubSeq(line, 4, Len(line)))))
                            ELSE IF StartsWith(Lower(line), DocKeyword)
                                 THEN ScanLines(lines, i + 1, in_settings, TRUE,
                                                IF Len(SplitOnce(line)) > 1
                                                THEN Append(doc_lines, SplitOnce(line)[2])
                                                ELSE doc_lines)
                                 ELSE ScanLines(lines, i + 1, in_settings, FALSE, doc_lines)

\* _extract_suite_doc for a file that read_text can decode.
_extract_suite_doc(file) == Strip(JoinSpace(ScanLines(file.lines, 1, FALSE, FALSE, <<>>)))

\* The lines a suite file is made of: those of the two files above, an empty
\* line, an indented continuation, and the keyword alone in capitals.
DocLineChoices ==
    Range(DocumentedLines) \cup Range(PlainLines)
    \cup {<<>>, <<" ", " ", ".", ".", ".", " ", "c">>,
          <<"D", "O", "C", "U", "M", "E", "N", "T", "A", "T", "I", "O", "N">>}

\* The files _extract_suite_doc is called on.
DocInputs ==
    UNION {[1..n -> DocLineChoices] : n \in 0..MaxDocLines}
    \cup {DocumentedLines, PlainLines}

\* One call of _extract_suite_doc on a file with the lines docIn.
ExtractCall ==
    /\ docOut = Pending
    /\ docOut' = [pending |-> FALSE,
                  value |-> _extract_suite_doc([kind |-> "file", lines |-> docIn])]
    /\ UNCHANGED docIn
    /\ UNCHANGED valVars
    /\ UNCHANGED walkVars
    /\ UNCHANGED inflight
    /\ UNCHANGED fsVars

\* Every test that did not pass counted as failed, the skipped ones as
\* skipped besides, and the total taken as the number of tests.
StatisticsSkippedTwice(outcomes) ==
    [total |-> Len(outcomes),
     passed |-> Cardinality({i \in 1..Len(outcomes) : outcomes[i].status = "PASS"}),
     failed |-> Cardinality({i \in 1..Len(outcomes) : outcomes[i].status # "PASS"}),
     skipped |-> Cardinality({i \in 1..Len(outcomes) : outcomes[i].status = "SKIP"})]

\* suite.statistics, as the engine derives it from the tests of the artifact:
\* a test counts as passed, else as skipped, else as failed, and the total is
\* the sum of the three.
Statistics(outcomes) ==
    LET passed == Cardinality({i \in 1..Len(outcomes) : outcomes[i].status = "PASS"})
        skipped == Cardinality({i \in 1..Len(outcomes) : outcomes[i].status = "SKIP"})
        failed == Cardinality({i \in 1..Len(outcomes) : outcomes[i].status \notin {"PASS", "SKIP"}})
    IN  [total |-> passed + failed + skipped,
         passed |-> passed, failed |-> failed, skipped |-> skipped]

\* suite.status, as the engine derives it: FAIL with a failed test, else PASS
\* with a passed one, else SKIP.
SuiteStatus(outcomes) ==
    IF Statistics(outcomes).failed > 0
    THEN "FAIL"
    ELSE IF Statistics(outcomes).passed > 0 THEN "PASS" ELSE "SKIP"

\* _result_to_dict(ExecutionResult(path)) for a well-formed artifact.
_result_to_dict(file) ==
    [suite |-> file.suite,
     status |-> SuiteStatus(file.report.tests),
     total |-> Statistics(file.report.tests).total,
     passed |-> Statistics(file.report.tests).passed,
     failed |-> Statistics(file.report.tests).failed,
     skipped |-> Statistics(file.report.tests).skipped,
     tests |-> [i \in 1..Len(file.report.tests) |->
                   [name |-> file.report.tests[i].name,
                    status |-> file.report.tests[i].status]]]

\* The newest artifact of all suites, whatever name is asked for.
FindLatestIgnoringName(suite_name) ==
    IF OutputsNewestFirst # <<>> THEN {OutputsNewestFirst[1]} ELSE {}

\* _find_latest_output: the suite directory whose output.xml is returned, as
\* a set of at most one name (empty for None).
_find_latest_output(suite_name) ==
    IF suite_name # <<>>
    THEN IF IsFile(ResultFile(suite_name)) THEN {suite_name} ELSE {}
    ELSE IF OutputsNewestFirst # <<>> THEN {OutputsNewestFirst[1]} ELSE {}

\* node.get("name", "(unknown)")
NameAttribute(node) ==
    IF "name" \in DOMAIN node THEN node.name ELSE "(unknown)"

\* The walk stopping at the <test> nearest to the root.
FindOutermostTestName(msg) ==
    LET above == {i \in 1..Len(msg.path) : msg.path[i].tag = "test"}
    IN  IF above = {}
        THEN "(suite-level)"
        ELSE NameAttribute(msg.path[CHOOSE i \in above : \A j \in above : i <= j])

\* _find_ancestor_test_name: the name of the nearest <test> above the message.
_find_ancestor_test_name(msg) ==
    LET above == {i \in 1..Len(msg.path) : msg.path[i].tag = "test"}
    IN  IF above = {}
        THEN "(suite-level)"
        ELSE NameAttribute(msg.path[CHOOSE i \in above : \A j \in above : j <= i])

-----------------------------------------------------------------------------
(* Tool 1: list_available_tests *)

RECURSIVE InsertName(_, _)
\* Insert x into a sequence of names sorted in ascending order.
InsertName(x, seq) ==
    IF seq = <<>>
    THEN <<x>>
    ELSE IF StrLess(x, Head(seq))
         THEN <<x>> \o seq
         ELSE <<Head(seq)>> \o InsertName(x, Tail(seq))

RECURSIVE SortNames(_)
\* sorted(seq) for paths of one directory.
SortNames(seq) ==
    IF seq = <<>>
    THEN <<>>
    ELSE InsertName(seq[Len(seq)], SortNames(SubSeq(seq, 1, Len(seq) - 1)))

\* sorted(TESTS_DIR.glob("*.robot"))
SortedRobotFiles == SortNames(GlobRobot)

\* What list_available_tests does: an error payload, the array of
\* descriptors, or the exception that read_text raises on a file that is not
\* UTF-8 text.
list_available_tests ==
    IF ~testsDir
    THEN [kind |-> "error", error |-> "Tests directory not found"]
    ELSE IF \E i \in 1..Len(SortedRobotFiles) : tests[SortedRobotFiles[i]].kind = "binary"
         THEN [kind |-> "raised", error |-> "UnicodeDecodeError"]
         ELSE [kind |-> "listing",
               suites |-> [i \in 1..Len(SortedRobotFiles) |->
                              [name |-> SortedRobotFiles[i],
                               file |-> SortedRobotFiles[i],
                               description |-> _extract_suite_doc(tests[SortedRobotFiles[i]])]]]

-----------------------------------------------------------------------------
(* Tool 2: execute_test_suite *)

\* The stems of RESULTS_DIR's suite directories instead of TESTS_DIR's files.
AvailableFromResults == GlobOutput

\* [f.stem for f in TESTS_DIR.glob("*.robot")]
AvailableSuites == GlobRobot

\* What robot_run may do with an existing suite file: raise before or after
\* it began to write output.xml, return without having written it, or write
\* a report and return the number of failed tests. What it writes has the
\* modification time end.
EngineRuns(suite_name, end) ==
    {[how |-> "raise", wrote |-> FALSE, exc |-> "engine stopped"],
     [how |-> "no_output", wrote |-> FALSE, rc |-> 252]}
    \cup {[how |-> "raise", wrote |-> TRUE, exc |-> "disk full", file |-> JunkFile(end)]}
    \cup {[how |-> "output", wrote |-> TRUE, rc |-> Statistics(r.tests).failed,
            file |-> XmlFile(r, EngineSuiteName(suite_name), end)] : r \in Reports}

\* What was at output_xml before robot_run was called.
OutputBeforeRun(run, suite_name) == results[suite_name]

\* What is at output_xml when robot_run is over: what the run wrote, or else
\* what was there before.
OutputAfterRun(run, suite_name) ==
    IF run.wrote THEN run.file ELSE results[suite_name]

\* The payload without the except clause around robot_run: the code after
\* it runs whatever the engine did.
ExecutePayloadUncaught(run, file) ==
    IF ~IsFile(file)
    THEN [kind |-> "crashed", return_code |-> 255, timestamp |-> clock]
    ELSE IF ExecutionResultFails(file)
         THEN [kind |-> "parse_failed", return_code |-> 255, timestamp |-> clock]
         ELSE [kind |-> "report", report |-> _result_to_dict(file),
               return_code |-> 255, timestamp |-> clock]

\* The message of the exception ExecutionResult raises on an artifact that is
\* not well-formed.
ParseErrorText == "no element found"

\* The payload with a parse failure reported in the words of an execution
\* failure.
ExecutePayloadConflated(run, file) ==
    IF run.how = "raise"
    THEN [kind |-> "exec_failed", error |-> <<"Execution failed: ", run.exc>>,
          timestamp |-> clock]
    ELSE IF ~IsFile(file)
         THEN [kind |-> "crashed",
               error |-> <<"output.xml was not created - execution may have crashed">>,
               return_code |-> run.rc, timestamp |-> clock]
         ELSE IF ExecutionResultFails(file)
              THEN [kind |-> "parse_failed",
                    error |-> <<"Execution failed: ", ParseErrorText>>,
                    return_code |-> run.rc, timestamp |-> clock]
              ELSE [kind |-> "report", report |-> _result_to_dict(file),
                    return_code |-> run.rc, timestamp |-> clock]

\* The payload execute_test_suite returns after the engine call, file being
\* what is at output_xml by then; the timestamp is the one taken before the
\* call.
ExecutePayload(run, file) ==
    IF run.how = "raise"
    THEN [kind |-> "exec_failed", error |-> <<"Execution failed: ", run.exc>>,
          timestamp |-> clock]
    ELSE IF ~IsFile(file)
         THEN [kind |-> "crashed",
               error |-> <<"output.xml was not created - execution may have crashed">>,
               return_code |-> run.rc, timestamp |-> clock]
         ELSE IF ExecutionResultFails(file)
              THEN [kind |-> "parse_failed",
                    error |-> <<"Result parsing failed: ", ParseErrorText>>,
                    return_code |-> run.rc, timestamp |-> clock]
              ELSE [kind |-> "report", report |-> _result_to_dict(file),
                    return_code |-> run.rc, timestamp |-> clock]

\* execute_test_suite(suite_name), reached over via. The engine run takes
\* time, as far as the clock of the model goes.
execute_test_suite(suite_name, via) ==
    IF ~IsFile(TestFile(suite_name))
    THEN /\ res' = [op |-> "execute", via |-> via, name |-> suite_name,
                    paths |-> {suite_name}, ran |-> FALSE, wrote |-> FALSE,
                    out |-> [kind |-> "not_found", suite |-> suite_name,
                            available |-> AvailableSuites]]
         /\ lastExec' = {}
         /\ UNCHANGED <<resultDirs, results, clock>>
    ELSE \E took \in 0..(MaxClock - clock) :
         \E run \in EngineRuns(suite_name, clock + took) :
            LET out == ExecutePayload(run, OutputAfterRun(run, suite_name))
            IN  /\ clock' = clock + took
                /\ resultDirs' = resultDirs \cup {suite_name}
                /\ results' = [results EXCEPT ![suite_name] =
                                  IF run.wrote THEN run.file ELSE @]
                /\ res' = [op |-> "execute", via |-> via, name |-> suite_name,
                           paths |-> {suite_name}, ran |-> TRUE, wrote |-> run.wrote,
                           how |-> run.how, began |-> clock, out |-> out]
                /\ lastExec' = IF out.kind = "report" /\ run.wrote THEN {suite_name} ELSE {}

-----------------------------------------------------------------------------
(* Tool 3: get_latest_results *)

\* A lookup that creates the directory of the suite it is asked about.
GetLatestResultsMakingDir(suite_name, via) ==
    /\ res' = [op |-> "results", via |-> via, name |-> suite_name,
               paths |-> IF suite_name # <<>> THEN {suite_name} ELSE {},
               after |-> lastExec, out |-> [kind |-> "not_found"]]
    /\ lastExec' = {}
    /\ resultDirs' = resultDirs \cup {suite_name}
    /\ UNCHANGED <<results, clock>>

\* get_latest_results without the try around the parse: an artifact that
\* does not parse makes the call raise.
GetLatestResultsUncaught(suite_name, via) ==
    LET found == _find_latest_output(suite_name)
        out == IF found = {}
               THEN [kind |-> "not_found"]
               ELSE LET dir == CHOOSE n \in found : TRUE
                    IN  IF ExecutionResultFails(results[dir])
                        THEN [kind |-> "raised"]
                        ELSE [kind |-> "report", report |-> _result_to_dict(results[dir]),
                              source |-> dir]
    IN  /\ res' = [op |-> "results", via |-> via, name |-> suite_name,
                   paths |-> IF suite_name # <<>> THEN {suite_name} ELSE {},
                   after |-> lastExec, out |-> out]
        /\ lastExec' = {}
        /\ UNCHANGED <<resultDirs, results, clock>>

\* get_latest_results(suite_name), reached over via; "" asks for the newest
\* artifact of all suites.
get_latest_results(suite_name, via) ==
    LET found == _find_latest_output(suite_name)
        out == IF found = {}
               THEN [kind |-> "not_found"]
               ELSE LET dir == CHOOSE n \in found : TRUE
                    IN  IF ExecutionResultFails(results[dir])
                        THEN [kind |-> "parse_failed"]
                        ELSE [kind |-> "report", report |-> _result_to_dict(results[dir]),
                              source |-> dir]
    IN  /\ res' = [op |-> "results", via |-> via, name |-> suite_name,
                   paths |-> IF suite_name # <<>> THEN {suite_name} ELSE {},
                   after |-> lastExec, out |-> out]
        /\ lastExec' = {}
        /\ UNCHANGED <<resultDirs, results, clock>>

-----------------------------------------------------------------------------
(* Tool 4: search_test_logs *)

_VALID_LEVELS == {FAIL, ERROR, WARN, INFO, DEBUG, TRACE}

severity_order == <<TRACE, DEBUG, INFO, WARN, ERROR, FAIL>>

\* The levels up to the threshold instead of from it on.
AllowedLevelsBelow(level) ==
    LET min_index == CHOOSE i \in 1..Len(severity_order) : severity_order[i] = level
    IN  {severity_order[i] : i \in 1..min_index}

\* set(severity_order[min_index:])
allowed_levels(level) ==
    LET min_index == CHOOSE i \in 1..Len(severity_order) : severity_order[i] = level
    IN  {severity_order[i] : i \in min_index..Len(severity_order)}

\* The entry appended for a matched message of the artifact in dir.
LogEntry(dir, m) ==
    [suite |-> dir,
     test |-> _find_ancestor_test_name(m),
     level |-> Upper(m.level),
     timestamp |-> m.timestamp,
     message |-> Strip(m.text)]

\* The entries one artifact contributes, in document order; none when the
\* artifact does not parse.
MatchesIn(dir, keyword, level) ==
    IF results[dir].kind = "junk"
    THEN <<>>
    ELSE LET msgs == results[dir].report.msgs
             Hit(m) == /\ Upper(m.level) \in allowed_levels(level)
                       /\ Contains(Lower(keyword), Lower(m.text))
             hits == SelectSeq(msgs, Hit)
         IN  [i \in 1..Len(hits) |-> LogEntry(dir, hits[i])]

\* The elements that can stand above a message: a suite, a keyword, two
\* tests, and a test without a name attribute.
WalkNodes == {SuiteNode, KwNode, TestNode("T1"), TestNode("T2"), [tag |-> "test"]}

\* The ancestor lists _find_ancestor_test_name is called on.
WalkInputs == UNION {[1..n -> WalkNodes] : n \in 0..MaxDepth}

\* The entry search_test_logs makes for one matched message with the
\* ancestors walkIn.
WalkCall ==
    /\ walkOut = Pending
    /\ walkOut' = [pending |-> FALSE,
                   value |-> LogEntry(NameA, Msg(WARN, "t1", TxtTimeoutUp, walkIn))]
    /\ UNCHANGED walkIn
    /\ UNCHANGED valVars
    /\ UNCHANGED docVars
    /\ UNCHANGED inflight
    /\ UNCHANGED fsVars

RECURSIVE MatchesOver(_, _, _)
\* The loop over xml_files.
MatchesOver(xml_files, keyword, level) ==
    IF xml_files = <<>>
    THEN <<>>
    ELSE MatchesIn(Head(xml_files), keyword, level)
         \o MatchesOver(Tail(xml_files), keyword, level)

\* ET.parse(xml_path) raises something other than ET.ParseError on one of
\* the files; the except clause of the loop does not catch it.
ParseRaisesUncaught(xml_files) ==
    \E i \in 1..Len(xml_files) : results[xml_files[i]].kind = "foreign"

\* The search comparing the level as it was given, without upper-casing it.
SearchCaseSensitive(keyword, log_level) ==
    IF log_level \notin _VALID_LEVELS
    THEN [kind |-> "invalid_level"]
    ELSE IF OutputsNewestFirst = <<>>
         THEN [kind |-> "no_files"]
         ELSE IF ParseRaisesUncaught(OutputsNewestFirst)
              THEN [kind |-> "raised", level |-> log_level, exc |-> "ValueError"]
              ELSE [kind |-> "matches", level |-> log_level,
                    matches |-> MatchesOver(OutputsNewestFirst, keyword, log_level)]

\* The search looking at the level only after it has read the artifacts.
SearchCheckingLevelLast(keyword, log_level) ==
    LET level == Upper(log_level)
    IN  IF OutputsNewestFirst = <<>>
        THEN [kind |-> "no_files"]
        ELSE IF ParseRaisesUncaught(OutputsNewestFirst)
             THEN [kind |-> "raised", level |-> level, exc |-> "ValueError"]
             ELSE IF level \notin _VALID_LEVELS
                  THEN [kind |-> "invalid_level"]
                  ELSE [kind |-> "matches", level |-> level,
                        matches |-> MatchesOver(OutputsNewestFirst, keyword, level)]

\* What search_test_logs(keyword, log_level) returns, or that it raised.
search_test_logs(keyword, log_level) ==
    LET level == Upper(log_level)
    IN  IF level \notin _VALID_LEVELS
        THEN [kind |-> "invalid_level"]
        ELSE IF OutputsNewestFirst = <<>>
             THEN [kind |-> "no_files"]
             ELSE IF ParseRaisesUncaught(OutputsNewestFirst)
                  THEN [kind |-> "raised", level |-> level, exc |-> "ValueError"]
                  ELSE [kind |-> "matches", level |-> level,
                        matches |-> MatchesOver(OutputsNewestFirst, keyword, level)]

-----------------------------------------------------------------------------
(* The callers: the FastAPI facade of server.py and the MCP tool registry *)

Idle == [op |-> "idle"]

\* The two server processes that import tools.py: the FastAPI facade and the
\* MCP server started by mcp.run(). Each calls a tool function from its
\* event loop and so runs one call at a time; the two processes share the
\* directories.
Procs == {"http", "mcp"}

\* The process is between two calls.
NoCall == [pc |-> "idle"]

RequestNames == SuiteNames \cup {<<>>}

KwTimeout == <<"t", "i", "m", "e", "o", "u", "t">>

KwDisk == <<"D", "I", "S", "K">>

KwNul == <<"x", "NUL">>

Keywords == {<<>>, KwTimeout, KwDisk, KwNul}

LevelInputs == _VALID_LEVELS \cup {<<"w", "a", "r", "n">>, SKIP}

\* The request is refused with a validation error before any tool runs.
Rejected(op, name) ==
    /\ res' = [op |-> op, via |-> "http", name |-> name, paths |-> {},
               ran |-> FALSE, wrote |-> FALSE, after |-> {}, out |-> [kind |-> "rejected"]]
    /\ lastExec' = {}
    /\ UNCHANGED <<resultDirs, results, clock>>

\* POST /tools/list_tests
ApiListTests ==
    /\ res = Idle
    /\ res' = [op |-> "list_tests", via |-> "http", paths |-> {}, out |-> list_available_tests]
    /\ lastExec' = {}
    /\ UNCHANGED <<testsDir, tests, resultDirs, results, scanOrder, clock>>
    /\ UNCHANGED callVars

\* The tool list_available_tests called through the MCP server.
McpListTests ==
    /\ res = Idle
    /\ res' = [op |-> "list_tests", via |-> "mcp", paths |-> {}, out |-> list_available_tests]
    /\ lastExec' = {}
    /\ UNCHANGED <<testsDir, tests, resultDirs, results, scanOrder, clock>>
    /\ UNCHANGED callVars

\* POST /tools/execute: ExecuteRequest validates suite_name, then the tool runs.
ApiExecute ==
    /\ res = Idle
    /\ \E name \in RequestNames :
          LET v == _validate_suite_name(name, FALSE)
          IN  IF v.raised
              THEN Rejected("execute", name)
              ELSE execute_test_suite(v.value, "http")
    /\ UNCHANGED <<testsDir, tests, scanOrder>>
    /\ UNCHANGED callVars

\* The tool execute_test_suite called through the MCP server.
McpExecute ==
    /\ res = Idle
    /\ \E name \in RequestNames : execute_test_suite(name, "mcp")
    /\ UNCHANGED <<testsDir, tests, scanOrder>>
    /\ UNCHANGED callVars

\* POST /tools/results: ResultsRequest validates suite_name unless it is
\* None; the tool gets req.suite_name or "".
ApiResults ==
    /\ res = Idle
    /\ \E opt \in {{}} \cup {{n} : n \in RequestNames} :
          IF opt = {}
          THEN get_latest_results(<<>>, "http")
          ELSE LET v == _validate_suite_name(CHOOSE n \in opt : TRUE, FALSE)
               IN  IF v.raised
                   THEN Rejected("results", CHOOSE n \in opt : TRUE)
                   ELSE get_latest_results(v.value, "http")
    /\ UNCHANGED <<testsDir, tests, scanOrder>>
    /\ UNCHANGED callVars

\* The tool get_latest_results called through the MCP server.
McpResults ==
    /\ res = Idle
    /\ \E name \in RequestNames : get_latest_results(name, "mcp")
    /\ UNCHANGED <<testsDir, tests, scanOrder>>
    /\ UNCHANGED callVars

\* The keyword limit of SearchLogsRequest.validate_keyword.
MaxKeywordLen == 200

\* SearchLogsRequest.validate_keyword raises.
KeywordRefused(v) == (\E i \in 1..Len(v) : v[i] = "NUL") \/ Len(v) > MaxKeywordLen

\* config.VALID_LOG_LEVELS
VALID_LOG_LEVELS == {FAIL, ERROR, WARN, INFO, DEBUG, TRACE}

\* POST /tools/search_logs: SearchLogsRequest validates keyword and log_level
\* and hands the tool the upper-cased level.
ApiSearchLogs ==
    /\ res = Idle
    /\ \E keyword \in Keywords, log_level \in LevelInputs :
          res' = [op |-> "search", via |-> "http", keyword |-> keyword,
                  log_level |-> log_level, paths |-> {},
                  out |-> IF KeywordRefused(keyword) \/ Upper(log_level) \notin VALID_LOG_LEVELS
                          THEN [kind |-> "rejected"]
                          ELSE search_test_logs(keyword, Upper(log_level))]
    /\ lastExec' = {}
    /\ UNCHANGED <<testsDir, tests, resultDirs, results, scanOrder, clock>>
    /\ UNCHANGED callVars

\* The tool search_test_logs called through the MCP server.
McpSearchLogs ==
    /\ res = Idle
    /\ \E keyword \in Keywords, log_level \in LevelInputs :
          res' = [op |-> "search", via |-> "mcp", keyword |-> keyword,
                  log_level |-> log_level, paths |-> {},
                  out |-> search_test_logs(keyword, log_level)]
    /\ lastExec' = {}
    /\ UNCHANGED <<testsDir, tests, resultDirs, results, scanOrder, clock>>
    /\ UNCHANGED callVars

\* The response goes out and the next request can be taken.
Respond ==
    /\ res # Idle
    /\ res' = Idle
    /\ UNCHANGED <<testsDir, tests, resultDirs, results, scanOrder, clock, lastExec>>
    /\ UNCHANGED callVars

\* Time passes: later writes get a later modification time.
Tick ==
    /\ res = Idle
    /\ clock < MaxClock
    /\ clock' = clock + 1
    /\ UNCHANGED <<testsDir, tests, resultDirs, results, scanOrder, lastExec, res>>
    /\ UNCHANGED callVars

-----------------------------------------------------------------------------
(* The two processes side by side: execute_test_suite in its steps *)

\* The suites asked for when the processes run side by side.
ConcNames == {NameA, NameB}

\* The search both processes make.
ConcKeyword == KwTimeout

ConcLevel == INFO

\* An artifact together with the process whose engine run wrote it and the
\* suite name that run was started for.
RunFile(file, p, name) == [by |-> p, for |-> name] @@ file

\* The entry of execute_test_suite with a lock on the suite: refused while
\* another process executes the same suite.
ExecuteEnterLocked(p, name) ==
    /\ inflight[p] = NoCall
    /\ \A q \in Procs \ {p} : inflight[q] = NoCall \/ inflight[q].name # name
    /\ IsFile(TestFile(name))
    /\ inflight' = [inflight EXCEPT ![p] =
                       [pc |-> "engine", op |-> "execute", name |-> name, began |-> clock]]
    /\ resultDirs' = resultDirs \cup {name}
    /\ clock' = clock + 1
    /\ UNCHANGED <<results, res, lastExec>>

\* execute_test_suite(name) in process p up to the call of robot_run: the
\* suite file is there, the suite directory is made, the timestamp taken.
\* Without the suite file the call returns the not-found payload at once.
ExecuteEnter(p, name) ==
    /\ inflight[p] = NoCall
    /\ IF ~IsFile(TestFile(name))
       THEN /\ res' = [op |-> "execute", via |-> p, name |-> name,
                       paths |-> {name}, ran |-> FALSE, wrote |-> FALSE,
                       out |-> [kind |-> "not_found", suite |-> name,
                               available |-> AvailableSuites]]
            /\ UNCHANGED <<inflight, resultDirs, results, lastExec, clock>>
       ELSE /\ inflight' = [inflight EXCEPT ![p] =
                               [pc |-> "engine", op |-> "execute", name |-> name,
                                began |-> clock]]
            /\ resultDirs' = resultDirs \cup {name}
            /\ clock' = clock + 1
            /\ UNCHANGED <<results, res, lastExec>>

ConcExecuteEnter ==
    /\ res = Idle
    /\ clock < MaxRuns
    /\ \E p \in Procs, name \in ConcNames :
          /\ ~_validate_suite_name(name, FALSE).raised
          /\ ExecuteEnter(p, name)
    /\ UNCHANGED <<testsDir, tests, scanOrder>>
    /\ UNCHANGED soloVars

\* The engine opening its output in the first listed suite directory instead
\* of the directory of its own suite.
EngineOpenShared(p) ==
    /\ inflight[p].pc = "engine"
    /\ results' = [results EXCEPT ![scanOrder[1]] =
                      RunFile(JunkFile(clock), p, inflight[p].name)]
    /\ inflight' = [inflight EXCEPT ![p].pc = "writing"]
    /\ UNCHANGED <<resultDirs, res, lastExec>>

\* The engine of p opens output_xml for writing: from now on the file holds
\* the beginning of a document.
EngineOpen(p) ==
    /\ inflight[p].pc = "engine"
    /\ results' = [results EXCEPT ![inflight[p].name] =
                      RunFile(JunkFile(clock), p, inflight[p].name)]
    /\ inflight' = [inflight EXCEPT ![p].pc = "writing"]
    /\ UNCHANGED <<resultDirs, res, lastExec>>

ConcEngineOpen ==
    /\ res = Idle
    /\ \E p \in Procs : EngineOpen(p)
    /\ UNCHANGED <<testsDir, tests, scanOrder, clock>>
    /\ UNCHANGED soloVars

\* robot_run of p is over without having opened output_xml: it raised, or it
\* returned 252.
ConcEngineEndUnwritten ==
    /\ res = Idle
    /\ \E p \in Procs :
          /\ inflight[p].pc = "engine"
          /\ \E run \in {[how |-> "raise", wrote |-> FALSE, exc |-> "engine stopped"],
                         [how |-> "no_output", wrote |-> FALSE, rc |-> 252]} :
                inflight' = [inflight EXCEPT ![p] =
                                [pc |-> "ended", op |-> "execute", name |-> inflight[p].name,
                                 began |-> inflight[p].began, run |-> run]]
    /\ UNCHANGED <<resultDirs, results, res, lastExec>>
    /\ UNCHANGED <<testsDir, tests, scanOrder, clock>>
    /\ UNCHANGED soloVars

\* Another engine run wrote to the output of p's run since p opened it, or
\* is writing to it now.
Disturbed(p) ==
    \/ results[inflight[p].name].by # p
    \/ \E q \in Procs \ {p} :
          inflight[q].pc = "writing" /\ inflight[q].name = inflight[p].name

\* robot_run of p writes the end of its report and returns the number of
\* failed tests. When another run wrote to the same file meanwhile, what is
\* in the file is this report or a mixture that does not parse.
ConcEngineClose ==
    /\ res = Idle
    /\ \E p \in Procs :
          /\ inflight[p].pc = "writing"
          /\ \E r \in Reports :
                LET name == inflight[p].name
                    whole == RunFile(XmlFile(r, EngineSuiteName(name), clock), p, name)
                    mixed == RunFile(JunkFile(clock), p, name)
                IN  /\ results' \in {[results EXCEPT ![name] = f] :
                                        f \in IF Disturbed(p) THEN {whole, mixed} ELSE {whole}}
                    /\ inflight' = [inflight EXCEPT ![p] =
                                       [pc |-> "ended", op |-> "execute", name |-> name,
                                        began |-> inflight[p].began,
                                        run |-> [how |-> "output", wrote |-> TRUE,
                                                 rc |-> Statistics(r.tests).failed]]]
    /\ UNCHANGED <<resultDirs, res, lastExec>>
    /\ UNCHANGED <<testsDir, tests, scanOrder, clock>>
    /\ UNCHANGED soloVars

\* robot_run of p raises while its output is partly written.
ConcEngineAbort ==
    /\ res = Idle
    /\ \E p \in Procs :
          /\ inflight[p].pc = "writing"
          /\ inflight' = [inflight EXCEPT ![p] =
                             [pc |-> "ended", op |-> "execute", name |-> inflight[p].name,
                              began |-> inflight[p].began,
                              run |-> [how |-> "raise", wrote |-> TRUE, exc |-> "disk full"]]]
    /\ UNCHANGED <<resultDirs, results, res, lastExec>>
    /\ UNCHANGED <<testsDir, tests, scanOrder, clock>>
    /\ UNCHANGED soloVars

\* execute_test_suite in p after robot_run: the except clause, the is_file
\* test and the parse of what is at output_xml now.
ConcExecuteReturn ==
    /\ res = Idle
    /\ \E p \in Procs :
          /\ inflight[p].pc = "ended"
          /\ res' = [op |-> "execute", via |-> p, name |-> inflight[p].name,
                     paths |-> {inflight[p].name}, ran |-> TRUE,
                     wrote |-> inflight[p].run.wrote, how |-> inflight[p].run.how,
                     began |-> inflight[p].began,
                     parsed |-> results[inflight[p].name],
                     out |-> ExecutePayload(inflight[p].run, results[inflight[p].name])]
          /\ inflight' = [inflight EXCEPT ![p] = NoCall]
    /\ UNCHANGED <<resultDirs, results, lastExec>>
    /\ UNCHANGED <<testsDir, tests, scanOrder, clock>>
    /\ UNCHANGED soloVars

\* get_latest_results in a process that is between two calls.
ConcResults ==
    /\ res = Idle
    /\ \E p \in Procs, name \in ConcNames \cup {<<>>} :
          /\ inflight[p] = NoCall
          /\ get_latest_results(name, p)
    /\ UNCHANGED <<testsDir, tests, scanOrder>>
    /\ UNCHANGED callVars

\* search_test_logs in a process that is between two calls.
ConcSearchLogs ==
    /\ res = Idle
    /\ \E p \in Procs :
          /\ inflight[p] = NoCall
          /\ res' = [op |-> "search", via |-> p, keyword |-> ConcKeyword,
                     log_level |-> ConcLevel, paths |-> {},
                     out |-> search_test_logs(ConcKeyword, ConcLevel)]
    /\ UNCHANGED lastExec
    /\ UNCHANGED <<testsDir, tests, resultDirs, results, scanOrder, clock>>
    /\ UNCHANGED callVars

-----------------------------------------------------------------------------
(* Specifications *)

Documented == [kind |-> "file", lines |-> DocumentedLines]

Plain == [kind |-> "file", lines |-> PlainLines]

Layout(a, b, up) ==
    [n \in SuiteNames |-> IF n = NameA THEN a ELSE IF n = NameB THEN b ELSE up]

\* The suite files an installation is given: both suites, one of them not
\* UTF-8 text, one of them missing and a suite file beside the tests
\* directory, or none at all.
TestLayouts ==
    {Layout(Documented, Plain, Absent),
     Layout(Documented, [kind |-> "binary"], Absent),
     Layout(Absent, Plain, Documented),
     Layout(Absent, Absent, Absent)}

\* The orders in which the filesystem may list the suite names.
ScanOrders == {<<NameA, NameB>>, <<NameB, NameA>>}

\* The server after start-up: RESULTS_DIR exists and is empty.
Init ==
    /\ vIn = <<>>
    /\ vAllow = FALSE
    /\ vOut = [pending |-> FALSE]
    /\ docIn = <<>>
    /\ docOut = [pending |-> FALSE]
    /\ walkIn = <<>>
    /\ walkOut = [pending |-> FALSE]
    /\ inflight = [p \in Procs |-> NoCall]
    /\ testsDir \in BOOLEAN
    /\ tests \in TestLayouts
    /\ (~testsDir => tests = [n \in SuiteNames |-> Absent])
    /\ resultDirs = {}
    /\ results = [n \in SuiteNames |-> Absent]
    /\ scanOrder \in ScanOrders
    /\ clock = 0
    /\ lastExec = {}
    /\ res = Idle

Next ==
    \/ ApiListTests
    \/ McpListTests
    \/ ApiExecute
    \/ McpExecute
    \/ ApiResults
    \/ McpResults
    \/ ApiSearchLogs
    \/ McpSearchLogs
    \/ Respond
    \/ Tick

Spec == Init /\ [][Next]_vars

\* The validator alone, on every input of ValidatorInputs.
InitValidator ==
    /\ vIn \in ValidatorInputs
    /\ vAllow \in BOOLEAN
    /\ vOut = Pending
    /\ docIn = <<>>
    /\ docOut = [pending |-> FALSE]
    /\ walkIn = <<>>
    /\ walkOut = [pending |-> FALSE]
    /\ inflight = [p \in Procs |-> NoCall]
    /\ testsDir = TRUE
    /\ tests = [n \in SuiteNames |-> Absent]
    /\ resultDirs = {}
    /\ results = [n \in SuiteNames |-> Absent]
    /\ scanOrder = <<NameA, NameB>>
    /\ clock = 0
    /\ lastExec = {}
    /\ res = Idle

NextValidator == ValidateCall

SpecValidator == InitValidator /\ [][NextValidator]_vars

\* _extract_suite_doc alone, on every file of DocInputs.
InitDoc ==
    /\ vIn = <<>>
    /\ vAllow = FALSE
    /\ vOut = [pending |-> FALSE]
    /\ docIn \in DocInputs
    /\ docOut = Pending
    /\ walkIn = <<>>
    /\ walkOut = [pending |-> FALSE]
    /\ inflight = [p \in Procs |-> NoCall]
    /\ testsDir = TRUE
    /\ tests = [n \in SuiteNames |-> Absent]
    /\ resultDirs = {}
    /\ results = [n \in SuiteNames |-> Absent]
    /\ scanOrder = <<NameA, NameB>>
    /\ clock = 0
    /\ lastExec = {}
    /\ res = Idle

NextDoc == ExtractCall

\* What a suite directory can hold from earlier days: nothing, a report of
\* the engine, a report cut short, or a report re-encoded by another tool.
HistoricalFiles(n) ==
    {Absent, JunkFile(0), ForeignFile(0)}
    \cup {XmlFile(r, EngineSuiteName(n), t) : r \in Reports, t \in 0..MaxClock}

\* The server started over a results directory that is not empty.
InitHist ==
    /\ vIn = <<>>
    /\ vAllow = FALSE
    /\ vOut = [pending |-> FALSE]
    /\ docIn = <<>>
    /\ docOut = [pending |-> FALSE]
    /\ walkIn = <<>>
    /\ walkOut = [pending |-> FALSE]
    /\ inflight = [p \in Procs |-> NoCall]
    /\ testsDir = TRUE
    /\ tests = Layout(Documented, Plain, Absent)
    /\ \E fa \in HistoricalFiles(NameA), fb \in HistoricalFiles(NameB) :
          results = Layout(fa, fb, Absent)
    /\ resultDirs = {n \in SuiteNames : IsFile(results[n])}
    /\ scanOrder \in ScanOrders
    /\ clock = MaxClock
    /\ lastExec = {}
    /\ res = Idle

NextHist ==
    \/ ApiResults
    \/ McpResults
    \/ ApiSearchLogs
    \/ McpSearchLogs
    \/ Respond

SpecHist == InitHist /\ [][NextHist]_vars

\* _find_ancestor_test_name alone, on every ancestor list of WalkInputs.
InitWalk ==
    /\ vIn = <<>>
    /\ vAllow = FALSE
    /\ vOut = [pending |-> FALSE]
    /\ docIn = <<>>
    /\ docOut = [pending |-> FALSE]
    /\ walkIn \in WalkInputs
    /\ walkOut = Pending
    /\ inflight = [p \in Procs |-> NoCall]
    /\ testsDir = TRUE
    /\ tests = [n \in SuiteNames |-> Absent]
    /\ resultDirs = {}
    /\ results = [n \in SuiteNames |-> Absent]
    /\ scanOrder = <<NameA, NameB>>
    /\ clock = 0
    /\ lastExec = {}
    /\ res = Idle

NextWalk == WalkCall

SpecWalk == InitWalk /\ [][NextWalk]_vars

\* The two processes after start-up, with both suite files in place.
InitConc ==
    /\ vIn = <<>>
    /\ vAllow = FALSE
    /\ vOut = [pending |-> FALSE]
    /\ docIn = <<>>
    /\ docOut = [pending |-> FALSE]
    /\ walkIn = <<>>
    /\ walkOut = [pending |-> FALSE]
    /\ inflight = [p \in Procs |-> NoCall]
    /\ testsDir = TRUE
    /\ tests = Layout(Documented, Plain, Absent)
    /\ resultDirs = {}
    /\ results = [n \in SuiteNames |-> Absent]
    /\ scanOrder \in ScanOrders
    /\ clock = 0
    /\ lastExec = {}
    /\ res = Idle

NextConc ==
    \/ ConcExecuteEnter
    \/ ConcEngineOpen
    \/ ConcEngineEndUnwritten
    \/ ConcEngineClose
    \/ ConcEngineAbort
    \/ ConcExecuteReturn
    \/ ConcResults
    \/ ConcSearchLogs
    \/ Respond

SpecConc == InitConc /\ [][NextConc]_vars

SpecDoc == InitDoc /\ [][NextDoc]_vars

-----------------------------------------------------------------------------
(* Claims about the validator, checked under SpecValidator *)

ValidatorDone == vOut # Pending

\* The value contains one of / \ .. ; | & $ backtick < > " ' or NUL.
HasForbidden(v) ==
    \/ \E i \in 1..Len(v) :
          v[i] \in {"/", "\\", ";", "|", "&", "$", "BACKTICK", "<", ">", "\"",
                    "APOSTROPHE", "NUL"}
    \/ \E i \in 1..(Len(v) - 1) : v[i] = "." /\ v[i + 1] = "."

\* The whole value is one letter followed by 0 to 63 letters, digits or
\* underscores.
IsIdentifier(v) ==
    /\ Len(v) \in 1..64
    /\ v[1] \in LowerLetters \cup UpperLetters
    /\ \A i \in 2..Len(v) : v[i] \in LowerLetters \cup UpperLetters \cup Digits \cup {"_"}

\* C1: a value that contains a forbidden character or sequence, at any
\* position and among any other characters, is rejected: the validator raises
\* and does not return it.
C1_ForbiddenRejected ==
    (ValidatorDone /\ HasForbidden(vIn)) => vOut.out.raised

\* C1 witness: a validated value with a forbidden character between two valid
\* ones, rejected although allow_empty was set.
C1_Witness ==
    /\ ValidatorDone
    /\ vAllow
    /\ Len(vIn) = 3
    /\ IsLetter(vIn[1]) /\ vIn[2] = "/" /\ IsLetter(vIn[3])
    /\ vOut.out.raised

\* C2: every non-empty value that is not, in its entirety, one letter followed
\* by 0 to 63 letters, digits or underscores is rejected.
C2_NonIdentifierRejected ==
    (ValidatorDone /\ vIn # <<>> /\ ~IsIdentifier(vIn)) => vOut.out.raised

\* C3: an identifier with no forbidden substring is accepted and returned
\* exactly as given.
C3_IdentifierAccepted ==
    (ValidatorDone /\ IsIdentifier(vIn) /\ ~HasForbidden(vIn))
        => (~vOut.out.raised /\ vOut.out.value = vIn)

\* C3 witness: an identifier of the greatest length, returned as given.
C3_Witness ==
    /\ ValidatorDone
    /\ Len(vIn) = MaxNameLen
    /\ IsIdentifier(vIn)
    /\ ~vOut.out.raised
    /\ vOut.out.value = vIn

-----------------------------------------------------------------------------
(* Claims about the tools and their callers, checked under Spec *)

\* C4: a suite name used to build a filesystem path or handed to the engine
\* has passed the validator, on every call path.
C4_ValidatedBeforeUse ==
    (res # Idle) => \A n \in res.paths : ~_validate_suite_name(n, FALSE).raised

\* C5: get_latest_results without a suite filter, called right after an
\* execution that wrote and returned a report, returns a report whose suite
\* field is the executed suite name.
C5_LatestIsExecuted ==
    (res.op = "results" /\ res.name = <<>> /\ res.out.kind # "rejected" /\ res.after # {})
        => (res.out.kind = "report" /\ res.after = {res.out.report.suite})

\* The names of the *.robot files directly in the tests directory.
DiscoverableNames == {n \in SuiteNames : testsDir /\ IsDirectChild(n) /\ IsFile(tests[n])}

C7_PreviousRunOverwritten ==
    (res.op = "execute" /\ res.ran) => (res.wrote \/ ~IsFile(results[res.name]))

\* C8: no operation lets an exception escape; each returns a success payload
\* or an error payload.
C8_NoExceptionEscapes ==
    (res # Idle) => res.out.kind # "raised"

\* The severities from least to most severe.
SeverityScale == <<TRACE, DEBUG, INFO, WARN, ERROR, FAIL>>

\* The six severities a search accepts as its minimum level.
SeverityLevels == Range(SeverityScale)

SeverityRank(level) == CHOOSE i \in 1..Len(SeverityScale) : SeverityScale[i] = level

\* C9: over the same artifacts and for the same keyword, the entries returned
\* for a minimum level contain the entries returned for every stricter level.
C9_SeverityMonotone ==
    (res.op = "search" /\ res.out.kind = "matches")
        => \A stricter \in _VALID_LEVELS :
              SeverityRank(stricter) >= SeverityRank(res.out.level)
                 => LET other == search_test_logs(res.keyword, stricter)
                    IN  /\ other.kind = "matches"
                        /\ Range(other.matches) \subseteq Range(res.out.matches)

\* C9 witness: a WARN search that returns a WARN entry besides the entries of
\* the ERROR search, which are not none.
C9_Witness ==
    /\ res.op = "search"
    /\ res.out.kind = "matches"
    /\ res.out.level = WARN
    /\ \E e \in Range(res.out.matches) : e.level = WARN
    /\ search_test_logs(res.keyword, ERROR).matches # <<>>
    /\ Range(search_test_logs(res.keyword, ERROR).matches) # Range(res.out.matches)

\* The number of message events in the artifacts of RESULTS_DIR that parse.
RECURSIVE MessageCount(_)
MessageCount(dirs) ==
    IF dirs = {}
    THEN 0
    ELSE LET d == CHOOSE n \in dirs : TRUE
         IN  (IF results[d].kind = "xml" THEN Len(results[d].report.msgs) ELSE 0)
             + MessageCount(dirs \ {d})

\* C10: a search for keyword "" at level TRACE returns one entry for every
\* message event of every report artifact.
C10_TraceReturnsAll ==
    (res.op = "search" /\ res.out.kind = "matches" /\ res.keyword = <<>>
        /\ res.out.level = TRACE)
        => Len(res.out.matches) = MessageCount({n \in SuiteNames : OutputPresent(n)})

\* The keyword occurs in the text when letter case is ignored.
OccursIgnoringCase(keyword, text) ==
    \E i \in 0..(Len(text) - Len(keyword)) :
        \A j \in 1..Len(keyword) : LowerChar(text[i + j]) = LowerChar(keyword[j])

\* The level is min or a more severe one of the six.
AtLeastAsSevere(level, min) ==
    \E i, j \in 1..Len(SeverityScale) :
        SeverityScale[i] = level /\ SeverityScale[j] = min /\ i >= j

\* The directories of RESULTS_DIR whose output.xml is a well-formed report.
ParsedDirs == {n \in SuiteNames : OutputPresent(n) /\ results[n].kind = "xml"}

\* C11: a message event of a report artifact is among the entries
\* search_test_logs returns if and only if its severity is the minimum level
\* or a more severe one and the keyword occurs in its text, letter case
\* ignored.
C11_ReturnedIffSevereAndMatching ==
    (res.op = "search" /\ res.out.kind = "matches")
        => \A d \in ParsedDirs :
              \A k \in 1..Len(results[d].report.msgs) :
                 LET m == results[d].report.msgs[k]
                 IN  (\E e \in Range(res.out.matches) :
                         e.suite = d /\ e.timestamp = m.timestamp)
                     <=> (/\ AtLeastAsSevere(m.level, res.out.level)
                          /\ OccursIgnoringCase(res.keyword, m.text))

\* C11 witness: keyword "timeout" at level ERROR, over a report with a FAIL
\* message "Net Timeout" and a report with an INFO message "timeout set",
\* returns the first and nothing else.
C11_Witness ==
    /\ res.op = "search"
    /\ res.out.kind = "matches"
    /\ res.keyword = KwTimeout
    /\ res.out.level = ERROR
    /\ \E d1, d2 \in ParsedDirs :
          /\ results[d1].report = ReportFail
          /\ results[d2].report = ReportPass
          /\ Len(res.out.matches) = 1
          /\ res.out.matches[1].suite = d1
          /\ res.out.matches[1].level = FAIL
          /\ res.out.matches[1].message = TxtTimeoutUp

C13_StatusPassOrFail ==
    (res.op \in {"execute", "results"} /\ res.out.kind = "report")
        => /\ res.out.report.status \in {"PASS", "FAIL"}
           /\ \A i \in 1..Len(res.out.report.tests) :
                 res.out.report.tests[i].status \in {"PASS", "FAIL"}

\* The tests directory and the results tree: directories, artifacts and
\* their modification times.
FileTree == <<testsDir, tests, resultDirs, results>>

\* C14: a step of list_available_tests, get_latest_results or
\* search_test_logs leaves the tests directory and the results tree as they
\* were, and every step that changes them is a step of execute_test_suite.
C14_ReadersLeaveFilesAlone ==
    [][/\ (res = Idle /\ res'.op \in {"list_tests", "results", "search"})
            => FileTree' = FileTree
       /\ (FileTree' # FileTree) => (res = Idle /\ res'.op = "execute")]_vars

\* C14 witness: get_latest_results has returned the report of an artifact
\* while a second artifact is in the tree.
C14_Witness ==
    /\ res.op = "results"
    /\ res.out.kind = "report"
    /\ Cardinality(ParsedDirs) = 2
    /\ resultDirs # {}

\* The descriptors are one for each *.robot file directly in the tests
\* directory, in ascending order of filename, each named by the file stem.
OneDescriptorPerFileInOrder(suites) ==
    /\ Len(suites) = Cardinality(DiscoverableNames)
    /\ {suites[i].name : i \in 1..Len(suites)} = DiscoverableNames
    /\ \A i, j \in 1..Len(suites) : i < j => StrLess(suites[i].file, suites[j].file)
    /\ \A i \in 1..Len(suites) : suites[i].name = FileStem(suites[i].file)

\* C15: with a tests directory, list_available_tests returns exactly one
\* descriptor for each *.robot file directly in it, in lexicographic order
\* of filename, with name equal to the file stem.
C15_OneDescriptorPerFile ==
    (res.op = "list_tests" /\ testsDir)
        => /\ res.out.kind = "listing"
           /\ OneDescriptorPerFileInOrder(res.out.suites)

\* C17: list_available_tests never raises: without a tests directory it
\* returns an error payload, for a directory without suite files an empty
\* array, and otherwise an array with a descriptor for every suite file,
\* whatever the file holds.
C17_ListNeverRaises ==
    (res.op = "list_tests")
        => /\ res.out.kind # "raised"
           /\ ~testsDir => res.out.kind = "error"
           /\ (testsDir /\ DiscoverableNames = {})
                 => (res.out.kind = "listing" /\ res.out.suites = <<>>)
           /\ (testsDir /\ DiscoverableNames # {})
                 => (res.out.kind = "listing"
                        /\ Len(res.out.suites) = Cardinality(DiscoverableNames))

\* The four counts of a report payload.
Counts(report) == <<report.total, report.passed, report.failed, report.skipped>>

\* C18: when execute_test_suite has returned a report, parsing the artifact
\* at results/<suite>/output.xml right afterwards gives a report with the
\* same total, passed, failed and skipped counts.
C18_ArtifactRoundTrip ==
    (res.op = "execute" /\ res.out.kind = "report")
        => /\ IsFile(results[res.name])
           /\ results[res.name].kind = "xml"
           /\ Counts(_result_to_dict(results[res.name])) = Counts(res.out.report)

\* C18 witness: an execution whose run wrote a report with a failed test and
\* that returned this report's counts.
C18_Witness ==
    /\ res.op = "execute"
    /\ res.wrote
    /\ res.out.kind = "report"
    /\ results[res.name].report = ReportFail
    /\ Counts(res.out.report) = <<2, 1, 1, 0>>

\* C19: when the engine run ended without producing the report artifact,
\* execute_test_suite returns an execution-failure error and no report, also
\* with an output.xml of an earlier run in the suite directory.
C19_NoArtifactNoReport ==
    (res.op = "execute" /\ res.ran /\ ~res.wrote)
        => res.out.kind \in {"exec_failed", "crashed"}

\* C20: when the engine call raised, execute_test_suite returns the error
\* payload "Execution failed: <message>" with the timestamp taken before the
\* call, and no report.
C20_EngineExceptionCaught ==
    (res.op = "execute" /\ res.ran /\ res.how = "raise")
        => /\ res.out.kind = "exec_failed"
           /\ \E exc \in {"engine stopped", "disk full"} :
                 res.out.error = <<"Execution failed: ", exc>>
           /\ res.out.timestamp = res.began
           /\ res.out.timestamp <= clock

\* C20 witness: the engine raised after a run that took time, with the
\* report of an earlier run still in the suite directory, and the payload
\* carries the time before the call.
C20_Witness ==
    /\ res.op = "execute"
    /\ res.ran
    /\ res.how = "raise"
    /\ ~res.wrote
    /\ results[res.name].kind = "xml"
    /\ res.out.kind = "exec_failed"
    /\ res.out.timestamp < clock

-----------------------------------------------------------------------------
(* Claims about the description of a suite file, checked under SpecDoc *)

IsSettingsHeader(line) == Strip(line) = SettingsHeader

IsOtherTable(line) == StartsWith(Strip(line), StarsPrefix) /\ ~IsSettingsHeader(line)

IsDocLine(line) == StartsWith(Lower(Strip(line)), DocKeyword)

IsContinuation(line) == StartsWith(Strip(line), DotsPrefix)

\* The rows of the settings section: the lines after the first settings
\* header up to the next table, a repeated settings header not counted.
SettingsRows(lines) ==
    LET heads == {i \in 1..Len(lines) : IsSettingsHeader(lines[i])}
    IN  IF heads = {}
        THEN {}
        ELSE LET first == CHOOSE i \in heads : \A j \in heads : i <= j
                 ends == {j \in (first + 1)..Len(lines) : IsOtherTable(lines[j])}
                 last == IF ends = {}
                         THEN Len(lines)
                         ELSE (CHOOSE j \in ends : \A k \in ends : j <= k) - 1
             IN  {i \in (first + 1)..last : ~IsSettingsHeader(lines[i])}

\* Row i is a Documentation line of the settings section that has a value.
HasDocValue(lines, i) ==
    /\ i \in SettingsRows(lines)
    /\ IsDocLine(lines[i])
    /\ \E k \in 1..Len(Strip(lines[i])) : Strip(lines[i])[k] \in Whitespace

\* Row i is a continuation line that follows a Documentation line of the
\* settings section with nothing but continuation lines between them.
ContinuesDoc(lines, i) ==
    /\ i \in SettingsRows(lines)
    /\ IsContinuation(lines[i])
    /\ \E d \in SettingsRows(lines) :
          /\ d < i
          /\ IsDocLine(lines[d])
          /\ \A k \in SettingsRows(lines) : (d < k /\ k < i) => IsContinuation(lines[k])

\* The trimmed value of such a row: what follows the keyword, or what follows
\* the continuation marker.
DocPiece(lines, i) ==
    LET t == Strip(lines[i])
    IN  IF IsContinuation(lines[i])
        THEN Strip(SubSeq(t, Len(DotsPrefix) + 1, Len(t)))
        ELSE Strip(SubSeq(t, CHOOSE k \in 1..Len(t) :
                                 /\ t[k] \in Whitespace
                                 /\ \A j \in 1..(k - 1) : t[j] \notin Whitespace,
                          Len(t)))

RECURSIVE SpacedFrom(_, _)
\* The values of the rows from i on that carry documentation, one space
\* between each two.
SpacedFrom(lines, i) ==
    IF i > Len(lines)
    THEN <<>>
    ELSE IF HasDocValue(lines, i) \/ ContinuesDoc(lines, i)
         THEN IF \E k \in (i + 1)..Len(lines) : HasDocValue(lines, k) \/ ContinuesDoc(lines, k)
              THEN DocPiece(lines, i) \o <<" ">> \o SpacedFrom(lines, i + 1)
              ELSE DocPiece(lines, i)
         ELSE SpacedFrom(lines, i + 1)

ExtractDone == docOut # Pending

\* C16: the description is the value of the Documentation line of the
\* settings section and of the continuation lines that follow it, each
\* trimmed, with one space between each two; nothing outside the settings
\* section is in it; and it is empty when the file has no documentation
\* keyword.
C16_DescriptionFromSettings ==
    ExtractDone
        => /\ docOut.value = Strip(SpacedFrom(docIn, 1))
           /\ (\A i \in 1..Len(docIn) : ~IsDocLine(docIn[i])) => docOut.value = <<>>
           /\ SettingsRows(docIn) = {} => docOut.value = <<>>

\* C16 witness: a file with a Documentation line and a continuation in its
\* settings section and a Documentation line in a later table gives the first
\* two, joined by one space.
C16_Witness ==
    /\ ExtractDone
    /\ docIn = DocumentedLines
    /\ docOut.value = <<"C", "h", "e", "c", "k", "s", " ", "a", " ", "a", "n", "d", " ", "b">>

-----------------------------------------------------------------------------
(* Claims about outcomes, lookup and search order, checked under Spec *)

\* The return codes robot_run gives in the model: the number of failed tests
\* of a report, or 252 for a suite it could not run.
ReturnCodes == {0, 1, 252}

\* C21: after the engine has returned, execute_test_suite answers by what is
\* at output_xml: nothing there gives the crashed error, an artifact that
\* does not parse gives the "Result parsing failed" error, an artifact that
\* parses gives a report; each of the three carries return_code and
\* timestamp, and the two error texts differ from each other and from the
\* "Execution failed" text.
C21_OutcomeByCause ==
    (res.op = "execute" /\ res.ran /\ res.how # "raise")
        => /\ res.out.return_code \in ReturnCodes
           /\ res.out.timestamp = res.began
           /\ ~IsFile(results[res.name])
                 => /\ res.out.kind = "crashed"
                    /\ res.out.error[1] \notin {"Result parsing failed: ", "Execution failed: "}
           /\ (IsFile(results[res.name]) /\ results[res.name].kind = "junk")
                 => /\ res.out.kind = "parse_failed"
                    /\ res.out.error[1] = "Result parsing failed: "
           /\ (IsFile(results[res.name]) /\ results[res.name].kind = "xml")
                 => /\ res.out.kind = "report"
                    /\ Counts(res.out.report) = Counts(_result_to_dict(results[res.name]))

\* C21 witness: the engine returned 252 without writing, and the artifact in
\* the suite directory does not parse: the parse error with return code and
\* timestamp.
C21_Witness ==
    /\ res.op = "execute"
    /\ res.ran
    /\ res.how = "no_output"
    /\ results[res.name].kind = "junk"
    /\ res.out.kind = "parse_failed"
    /\ res.out.return_code = 252
    /\ res.out.timestamp = res.began

-----------------------------------------------------------------------------
(* Claims about the two processes side by side, checked under SpecConc *)

\* Process p is inside the engine run of an execution.
EngineRunning(p) == inflight[p].pc \in {"engine", "writing"}

\* Process p is anywhere inside an execution of the suite name.
Executing(p, name) == inflight[p] # NoCall /\ inflight[p].name = name

\* C23: the core does not serialise two executions of one suite. While one
\* process is inside the engine run of a suite, nothing keeps the other
\* process from entering an execution of the same suite; both runs then
\* write the same output.xml.
C23_NoSingleFlightGuard ==
    \A p \in Procs : \A q \in Procs \ {p} :
        (res = Idle /\ clock < MaxRuns /\ EngineRunning(p) /\ inflight[q] = NoCall)
            => ENABLED ExecuteEnter(q, inflight[p].name)

\* C23 witness: an execution whose own engine run wrote output.xml returns
\* a report parsed from what the run of the other process wrote there.
C23_Witness ==
    /\ res.op = "execute"
    /\ res.wrote
    /\ res.out.kind = "report"
    /\ res.parsed.by # res.via
    /\ res.parsed.for = res.name

\* An execution whose engine run returned normally reads the output while
\* the run of the other process is still writing it, and cannot parse it.
ReadsPartialArtifact ==
    /\ res.op = "execute"
    /\ res.how = "output"
    /\ res.out.kind = "parse_failed"
    /\ \E q \in Procs \ {res.via} : inflight[q].pc = "writing" /\ inflight[q].name = res.name

\* The call that has just returned ran while a process was inside an
\* execution of the suite it asked for.
ReadDuringExecution ==
    /\ res.op = "results"
    /\ res.name # <<>>
    /\ \E q \in Procs : Executing(q, res.name)

\* The search that has just returned ran while the engine of a process had
\* its output open and partly written.
SearchDuringWrite ==
    /\ res.op = "search"
    /\ \E q \in Procs :
          inflight[q].pc = "writing" /\ results[inflight[q].name].kind = "junk"

\* The entries are the qualifying messages of the artifacts that parse, and
\* nothing else.
EntriesOfParsedArtifacts ==
    /\ \A e \in Range(res.out.matches) : e.suite \in ParsedDirs
    /\ \A d \in ParsedDirs :
          \A k \in 1..Len(results[d].report.msgs) :
             LET m == results[d].report.msgs[k]
             IN  (\E e \in Range(res.out.matches) :
                     e.suite = d /\ e.timestamp = m.timestamp)
                 <=> (/\ AtLeastAsSevere(m.level, res.out.level)
                      /\ OccursIgnoringCase(res.keyword, m.text))

\* C24, as the code has it: a get_latest_results or search_test_logs call
\* that runs during an execution of the same suite does not raise.
\* get_latest_results returns the complete report of the artifact, the
\* "Result parsing failed" payload when the artifact is partly written, or
\* the not-found payload when the execution has not created the artifact
\* yet; search_test_logs skips the partly written artifact and returns the
\* matches of the others.
C24_ReadersDuringExecution ==
    /\ ReadDuringExecution
          => \/ /\ res.out.kind = "report"
                /\ results[res.name].kind = "xml"
                /\ res.out.report = _result_to_dict(results[res.name])
             \/ /\ res.out.kind = "parse_failed"
                /\ results[res.name].kind = "junk"
             \/ /\ res.out.kind = "not_found"
                /\ ~IsFile(results[res.name])
    /\ SearchDuringWrite
          => /\ res.out.kind = "matches"
             /\ EntriesOfParsedArtifacts

\* C24 witness: get_latest_results asked for a suite whose engine run had
\* the artifact open, and returned the parse failure.
C24_Witness ==
    /\ ReadDuringExecution
    /\ \E q \in Procs : inflight[q].pc = "writing" /\ inflight[q].name = res.name
    /\ res.out.kind = "parse_failed"

\* A search during a write that skipped the open artifact and returned an
\* entry of another one.
SearchSkipsOpenArtifact ==
    /\ SearchDuringWrite
    /\ res.out.kind = "matches"
    /\ res.out.matches # <<>>

\* C24 as stated: during an execution of the same suite get_latest_results
\* returns a complete report or the "Result parsing failed" payload, and
\* search_test_logs skips the partly written artifact.
C24_ReportOrParseFailure ==
    /\ ReadDuringExecution => res.out.kind \in {"report", "parse_failed"}
    /\ SearchDuringWrite
          => /\ res.out.kind = "matches"
             /\ EntriesOfParsedArtifacts

\* C25: an execution of suite A writes only inside results/A. A step that
\* changes the artifact of a suite is a step of the engine run of an
\* execution of that suite, a directory that appears is the directory of the
\* suite whose execution is entered, and a report returned for A is parsed
\* from an artifact written by a run for A; so executions of different
\* suites, one after the other or side by side, leave each other's
\* artifacts alone.
C25_WritesOnlyOwnDirectory ==
    [][/\ \A n \in SuiteNames :
             results'[n] # results[n]
                 => \E p \in Procs : /\ EngineRunning(p)
                                     /\ inflight[p].name = n
                                     /\ inflight'[p] # inflight[p]
       /\ \A n \in resultDirs' \ resultDirs :
             \E p \in Procs : /\ inflight[p] = NoCall
                              /\ inflight'[p] # NoCall
                              /\ inflight'[p].name = n
       /\ (res'.op = "execute" /\ res'.out.kind = "report")
             => res'.parsed.for = res'.name]_vars

\* C25 witness: an execution of B returns the report its run wrote while the
\* engine run of an execution of a has the artifact of a open.
C25_Witness ==
    /\ res.op = "execute"
    /\ res.name = NameB
    /\ res.out.kind = "report"
    /\ res.parsed.by = res.via
    /\ \E q \in Procs : /\ inflight[q].pc = "writing"
                        /\ inflight[q].name = NameA
                        /\ results[NameA].kind = "junk"
                        /\ results[NameA].for = NameA

\* The same for the calls made one after the other: a call that changes what
\* is in a suite directory is an execution of that suite.
SequentialWritesOwnDirectory ==
    [][\A n \in SuiteNames :
          (results'[n] # results[n] \/ (n \in resultDirs' /\ n \notin resultDirs))
              => /\ res'.op \in {"execute", "results"}
                 /\ res'.name = n
                 /\ res'.op = "results" => results'[n] = results[n]]_vars

-----------------------------------------------------------------------------
(* Claims about the entries of a search, checked under Spec *)

\* The place in its report of the message an entry was made from.
DocIndex(e) ==
    CHOOSE k \in 1..Len(results[e.suite].report.msgs) :
        results[e.suite].report.msgs[k].timestamp = e.timestamp

\* C26: the entries of a search come in iteration order. The entries of an
\* artifact with a later modification time come before those of an artifact
\* with an earlier one, the entries of one artifact are in document order
\* and stand together, and nothing else orders them.
C26_NewestFirstThenDocumentOrder ==
    (res.op = "search" /\ res.out.kind = "matches")
        => \A i, j \in 1..Len(res.out.matches) :
              i < j =>
                 LET a == res.out.matches[i]
                     b == res.out.matches[j]
                 IN  /\ results[a.suite].mtime >= results[b.suite].mtime
                     /\ a.suite = b.suite
                           => /\ DocIndex(a) < DocIndex(b)
                              /\ \A k \in i..j : res.out.matches[k].suite = a.suite

\* C26 witness: the artifact the filesystem lists second is the newer one,
\* and its two entries come first, before an entry of the older artifact.
C26_Witness ==
    /\ res.op = "search"
    /\ res.out.kind = "matches"
    /\ Len(res.out.matches) >= 3
    /\ res.out.matches[1].suite = scanOrder[2]
    /\ res.out.matches[2].suite = scanOrder[2]
    /\ DocIndex(res.out.matches[1]) < DocIndex(res.out.matches[2])
    /\ res.out.matches[3].suite = scanOrder[1]
    /\ results[scanOrder[2]].mtime > results[scanOrder[1]].mtime

-----------------------------------------------------------------------------
(* Claims about the test an entry names, checked under SpecWalk *)

WalkDone == walkOut # Pending

\* The places of the test-case nodes among the ancestors, the root first.
TestsAbove(path) == {i \in 1..Len(path) : path[i].tag = "test"}

\* Place i holds the test-case node nearest to the message.
NearestTest(path, i) ==
    /\ i \in TestsAbove(path)
    /\ \A j \in (i + 1)..Len(path) : path[j].tag # "test"

\* C27: the test field of the entry of a matched message is the name of the
\* nearest test-case node above the message, the innermost one when several
\* ancestors are test-case nodes ("(unknown)" when that node has no name
\* attribute); with no test-case node above it the field is "(suite-level)",
\* and the entry is made all the same.
C27_NearestEnclosingTest ==
    WalkDone
        => /\ \A i \in 1..Len(walkIn) :
                 NearestTest(walkIn, i)
                     => walkOut.value.test =
                            IF "name" \in DOMAIN walkIn[i] THEN walkIn[i].name ELSE "(unknown)"
           /\ TestsAbove(walkIn) = {} => walkOut.value.test = "(suite-level)"
           /\ walkOut.value.level = WARN
           /\ walkOut.value.message = TxtTimeoutUp

\* C27 witness: a message in a keyword of test T2, which stands inside test
\* T1, gets the entry of T2.
C27_Witness ==
    /\ WalkDone
    /\ walkIn = <<TestNode("T1"), TestNode("T2"), KwNode>>
    /\ walkOut.value.test = "T2"

\* The same for the entries of a search over the reports of the engine: each
\* names the nearest test above its message, and the messages outside every
\* test are entries with "(suite-level)".
EntriesNameTheirTest ==
    (res.op = "search" /\ res.out.kind = "matches")
        => \A e \in Range(res.out.matches) :
              LET path == results[e.suite].report.msgs[DocIndex(e)].path
              IN  /\ \A i \in 1..Len(path) : NearestTest(path, i) => e.test = path[i].name
                  /\ TestsAbove(path) = {} => e.test = "(suite-level)"

\* A search that returned an entry of a message outside every test.
SuiteLevelEntryReturned ==
    /\ res.op = "search"
    /\ res.out.kind = "matches"
    /\ \E e \in Range(res.out.matches) : e.test = "(suite-level)"

\* A search with a keyword the facade accepts and one of the six levels.
ValidSearch ==
    /\ res.op = "search"
    /\ ~KeywordRefused(res.keyword)
    /\ Upper(res.log_level) \in _VALID_LEVELS

\* C29: for a valid keyword and a recognised level search_test_logs returns
\* a sequence of entries, the empty sequence when no report artifact exists
\* under the results directory.
C29_SearchReturnsSequence ==
    ValidSearch
        => /\ res.out.kind = "matches"
           /\ GlobOutput = <<>> => res.out.matches = <<>>

\* A valid search over a results directory with an artifact returned a
\* sequence of entries.
SequenceOverArtifacts ==
    /\ ValidSearch
    /\ GlobOutput # <<>>
    /\ res.out.kind = "matches"

-----------------------------------------------------------------------------
(* Claims about a search over artifacts of earlier days, checked under
   SpecHist *)

\* The file in the suite directory is there and is not a report that parses.
Unparsable(n) == OutputPresent(n) /\ results[n].kind # "xml"

\* The directory holds a report that parses.
Parsable(n) == OutputPresent(n) /\ results[n].kind = "xml"

\* C28: an artifact that is malformed or cannot be read as a report is
\* skipped by search_test_logs. The call does not fail and returns the
\* entries it returns for the other artifacts, in the same order.
C28_UnparsableArtifactSkipped ==
    (res.op = "search" /\ res.out.kind \notin {"rejected", "invalid_level"}
        /\ \E n \in SuiteNames : Unparsable(n))
        => /\ res.out.kind = "matches"
           /\ res.out.matches =
                 MatchesOver(SelectSeq(OutputsNewestFirst, Parsable), res.keyword, res.out.level)

\* A search over a report cut short and a report of the engine: the first is
\* skipped and the entries of the second are returned.
CutShortArtifactSkipped ==
    /\ res.op = "search"
    /\ res.out.kind = "matches"
    /\ res.out.matches # <<>>
    /\ \E n \in SuiteNames : Unparsable(n) /\ results[n].kind = "junk"

\* C30: search_test_logs takes the minimum level in any letter case, "warn"
\* as "WARN": the search is made at the upper-cased level. A level that is
\* none of TRACE, DEBUG, INFO, WARN, ERROR, FAIL after upper-casing gets the
\* invalid-input error, whatever is under the results directory, and no
\* entries.
C30_LevelCheckedFirst ==
    (res.op = "search" /\ ~KeywordRefused(res.keyword))
        => IF Upper(res.log_level) \in SeverityLevels
           THEN /\ res.out.kind \in {"matches", "no_files", "raised"}
                /\ res.out.kind = "matches"
                      => /\ res.out.level = Upper(res.log_level)
                         /\ EntriesOfParsedArtifacts
           ELSE /\ res.out.kind \in {"invalid_level", "rejected"}
                /\ res.via = "mcp" => res.out.kind = "invalid_level"

\* C30 witness: the level "warn" given to the tool, over a report with a
\* WARN message, returns that message at level WARN.
C30_Witness ==
    /\ res.op = "search"
    /\ res.via = "mcp"
    /\ res.log_level = <<"w", "a", "r", "n">>
    /\ res.out.kind = "matches"
    /\ res.out.level = WARN
    /\ \E e \in Range(res.out.matches) : e.level = WARN

\* A level that is none of the six, given while an artifact is there that
\* the search cannot read, gets the invalid-input error.
InvalidLevelBeforeArtifacts ==
    /\ res.op = "search"
    /\ res.via = "mcp"
    /\ res.log_level = SKIP
    /\ \E n \in SuiteNames : OutputPresent(n) /\ results[n].kind = "foreign"
    /\ res.out.kind = "invalid_level"

====
